---- MODULE Spec2Model ----
(***************************************************************************)
(* Model of src/main.py: the /transcribe and /analyze handlers of the      *)
(* video summarizer service, the VideoAgent keyword router, and the        *)
(* collaborators they call (temporary files, Whisper, the Groq completion  *)
(* API).  Strings that the code inspects or builds character by character  *)
(* (the query, the keywords, the result strings) are sequences of          *)
(* one-character strings.                                                  *)
(***************************************************************************)
EXTENDS Integers, Sequences, FiniteSets, TLC

(* ------------------------------ bounds --------------------------------- *)

\* number of requests the service receives in one run
NumReqs == 2
\* longest query of the routing specification, in fragments
MaxFrags == 2

(* ----------------------- literals of the program ----------------------- *)

HTTP_OK == 200
HTTP_ERROR == 500

URL_PREFIX == <<"h","t","t","p","s",":","/","/","w","w","w",".","d","u","c","k","d","u","c","k","g","o",".","c","o","m","/","?","q","=">>
UNKNOWN_RESULT == <<"S","o","r","r","y",","," ","I"," ","c","o","u","l","d","n","'","t"," ","u","n","d","e","r","s","t","a","n","d"," ","t","h","e"," ","q","u","e","r","y",".">>
GROQ_ERROR_PREFIX == <<"G","r","o","q"," ","A","P","I"," ","E","r","r","o","r",":"," ">>
GROQ_ERROR_SEP == <<" ","-"," ">>

SUMMARY_KEYWORDS ==
  << <<"s","u","m","m","a","r","i","z","e">>,
     <<"k","e","y"," ","p","o","i","n","t","s">>,
     <<"s","u","m","m","a","r","y">>,
     <<"m","a","i","n"," ","i","d","e","a","s">> >>

WEB_SEARCH_KEYWORDS ==
  << <<"s","e","a","r","c","h">>,
     <<"f","i","n","d"," ","m","o","r","e">>,
     <<"l","o","o","k"," ","u","p">>,
     <<"a","d","d","i","t","i","o","n","a","l"," ","i","n","f","o">> >>

FACT_CHECK_KEYWORDS ==
  << <<"f","a","c","t","-","c","h","e","c","k">>,
     <<"v","e","r","i","f","y">>,
     <<"i","s"," ","t","h","i","s"," ","t","r","u","e">>,
     <<"c","h","e","c","k">> >>

(* --------------------------- string operations ------------------------- *)

UpperCase == <<"A","B","C","D","E","F","G","H","I","J","K","L","M","N","O","P","Q","R","S","T","U","V","W","X","Y","Z">>
LowerCase == <<"a","b","c","d","e","f","g","h","i","j","k","l","m","n","o","p","q","r","s","t","u","v","w","x","y","z">>
Digits == <<"0","1","2","3","4","5","6","7","8","9">>

\* str.lower() on one character
lower_char(c) ==
  IF \E i \in 1..Len(UpperCase) : UpperCase[i] = c
  THEN LowerCase[CHOOSE i \in 1..Len(UpperCase) : UpperCase[i] = c]
  ELSE c

\* str.lower()
lower(s) == [i \in 1..Len(s) |-> lower_char(s[i])]

\* `keyword in s`: a left-to-right scan for the first occurrence
RECURSIVE find_from(_, _, _)
find_from(kw, s, i) ==
  IF i + Len(kw) - 1 > Len(s) THEN FALSE
  ELSE IF SubSeq(s, i, i + Len(kw) - 1) = kw THEN TRUE
  ELSE find_from(kw, s, i + 1)

str_in(kw, s) == find_from(kw, s, 1)

\* any(keyword in s for keyword in keywords)
any_keyword_in(keywords, s) == \E i \in 1..Len(keywords) : str_in(keywords[i], s)

\* the decimal text an f-string gives a non-negative int
RECURSIVE str_int(_)
str_int(n) ==
  IF n < 10 THEN <<Digits[n + 1]>>
  ELSE str_int(n \div 10) \o <<Digits[(n % 10) + 1]>>

(* ------------------------------- inputs -------------------------------- *)

Reqs == 1..NumReqs
NoReq == 0

\* uploads: two videos with speech and one file that is not decodable media
Videos == {"videoA", "videoB", "corrupt"}

Endpoints == {"transcribe", "analyze"}

\* queries of the service specification: one per intent
SummaryExample == <<"P","l","e","a","s","e"," ","s","u","m","m","a","r","i","z","e"," ","t","h","i","s">>
WebSearchExample == <<"c","a","n"," ","y","o","u"," ","s","e","a","r","c","h"," ","f","o","r"," ","m","o","r","e"," ","i","n","f","o">>

ExampleQueries ==
  { SummaryExample, WebSearchExample,
    <<"p","l","e","a","s","e"," ","f","a","c","t","-","c","h","e","c","k"," ","t","h","i","s"," ","c","l","a","i","m">>,
    <<"w","h","a","t"," ","i","s"," ","t","h","e"," ","w","e","a","t","h","e","r">> }

\* queries of the routing specification: every concatenation of at most
\* MaxFrags fragments, so that keywords are split across fragments, typed
\* in upper case, nested in each other and mixed across categories
Fragments ==
  { <<"S","U","M","M","A","R","Y">>, <<"k","e","y"," ">>,
    <<"p","o","i","n","t","s">>, <<"S","e","a","r","c","h">>,
    <<"f","a","c","t","-">>, <<"c","h","e","c","k">>,
    <<"V","e","r","i","f","y">>, <<"w","e","a","t","h","e","r">> }

RECURSIVE Concats(_)
Concats(n) ==
  IF n = 0 THEN {<<>>}
  ELSE Concats(n - 1) \cup {a \o f : a \in Concats(n - 1), f \in Fragments}

FragmentQueries == Concats(MaxFrags) \ {<<>>}

(* ----------------------------- collaborators --------------------------- *)

\* the temporary directory: name -> content of the file of that name
TempNames == 1..NumReqs
NoPath == 0
EmptyFiles == [n \in TempNames |-> "absent"]

\* a mutant of NamedTemporaryFile: one fixed name for every upload
fixed_temp_name(fs) == 1

\* tempfile.NamedTemporaryFile(delete=False, suffix=".mp4"): a name that no
\* existing file has
NamedTemporaryFile(fs) ==
  CHOOSE n \in TempNames :
    /\ fs[n] = "absent"
    /\ \A m \in TempNames : m < n => fs[m] # "absent"

\* temp.write(...) through the handle opened at creation: the bytes reach
\* the directory entry while the file is still linked under its name
temp_write(fs, path, bytes) ==
  IF fs[path] = "absent" THEN fs ELSE [fs EXCEPT ![path] = bytes]

\* Path(path).unlink(missing_ok=True)
unlink(fs, path) == [fs EXCEPT ![path] = "absent"]

\* whisper_model.transcribe(video_path)["text"]: fails on a missing, empty
\* or undecodable file
transcribe_audio(fs, video_path) ==
  LET content == fs[video_path] IN
    IF content = "absent"
    THEN [exc |-> "RuntimeError: No such file", value |-> "none"]
    ELSE IF content \in {"empty", "corrupt"}
    THEN [exc |-> "RuntimeError: Failed to load audio", value |-> "none"]
    ELSE [exc |-> "none", value |-> IF content = "videoA" THEN "speech of A" ELSE "speech of B"]

\* what requests.post(...) to the completion API can do
GroqOutcomes ==
  { [exc |-> "none", status |-> 200, json_ok |-> TRUE,
     body |-> <<"T","h","e"," ","v","i","d","e","o"," ","i","s"," ","a","b","o","u","t"," ","X",".">>],
    [exc |-> "none", status |-> 200, json_ok |-> FALSE, body |-> <<"{","}">>],
    [exc |-> "none", status |-> 429, json_ok |-> TRUE,
     body |-> <<"R","a","t","e"," ","l","i","m","i","t"," ","r","e","a","c","h","e","d">>],
    [exc |-> "ConnectionError", status |-> 0, json_ok |-> FALSE, body |-> <<>>] }

NoGroq == [exc |-> "none", status |-> 0, json_ok |-> FALSE, body |-> <<>>]

\* a mutant of query_groq: a non-success status is raised, not returned
query_groq_raises(prompt, g) ==
  IF g.exc # "none" THEN [exc |-> g.exc, value |-> <<>>]
  ELSE IF g.status = HTTP_OK
  THEN IF g.json_ok THEN [exc |-> "none", value |-> g.body]
       ELSE [exc |-> "KeyError: 'choices'", value |-> <<>>]
  ELSE [exc |-> "HTTPError", value |-> <<>>]

\* a mutant of query_groq: the error text leaves out response.text
query_groq_drops_body(prompt, g) ==
  IF g.exc # "none" THEN [exc |-> g.exc, value |-> <<>>]
  ELSE IF g.status = HTTP_OK
  THEN IF g.json_ok THEN [exc |-> "none", value |-> g.body]
       ELSE [exc |-> "KeyError: 'choices'", value |-> <<>>]
  ELSE [exc |-> "none", value |-> GROQ_ERROR_PREFIX \o str_int(g.status)]

\* query_groq(prompt), g being what the completion API answers
query_groq(prompt, g) ==
  IF g.exc # "none" THEN [exc |-> g.exc, value |-> <<>>]
  ELSE IF g.status = HTTP_OK
  THEN IF g.json_ok THEN [exc |-> "none", value |-> g.body]
       ELSE [exc |-> "KeyError: 'choices'", value |-> <<>>]
  ELSE [exc |-> "none",
        value |-> GROQ_ERROR_PREFIX \o str_int(g.status) \o GROQ_ERROR_SEP \o g.body]

\* a mutant of web_search: the lower-cased copy of the query is used
web_search_lowered(query) == URL_PREFIX \o lower(query)

web_search(query) == URL_PREFIX \o query

fact_checking(query) == URL_PREFIX \o query

(* ------------------------------ VideoAgent ----------------------------- *)

\* the prompt summarize_video builds from the transcript and the query
summary_prompt(self) ==
  <<"Here is the transcript of a video:", self.transcript,
    "Now respond to the following request:", self.user_query>>

\* Each method gives its return value, the exception it raises ("none" when
\* it returns) and the prompts it has sent to the completion API.
summarize_video(self, g) ==
  LET r == query_groq(summary_prompt(self), g) IN
    [value |-> r.value, exc |-> r.exc, calls |-> <<summary_prompt(self)>>]

\* a mutant of search_web: the link is built and the completion API asked too
search_web_asks_groq(self, g) ==
  [value |-> web_search(self.user_query), exc |-> "none",
   calls |-> <<summary_prompt(self)>>]

search_web(self, g) ==
  [value |-> web_search(self.user_query), exc |-> "none", calls |-> <<>>]

fact_check(self, g) ==
  [value |-> fact_checking(self.user_query), exc |-> "none", calls |-> <<>>]

\* a mutant of process_query: the web-search keywords are tested first
process_query_web_first(self, g) ==
  LET user_query_lower == lower(self.user_query) IN
    IF any_keyword_in(WEB_SEARCH_KEYWORDS, user_query_lower)
    THEN [type |-> "web_search"] @@ search_web(self, g)
    ELSE IF any_keyword_in(SUMMARY_KEYWORDS, user_query_lower)
    THEN [type |-> "summary"] @@ summarize_video(self, g)
    ELSE IF any_keyword_in(FACT_CHECK_KEYWORDS, user_query_lower)
    THEN [type |-> "fact_check"] @@ fact_check(self, g)
    ELSE [type |-> "unknown", value |-> UNKNOWN_RESULT, exc |-> "none", calls |-> <<>>]

\* a mutant of process_query: a query without keywords falls into fact_check
process_query_no_unknown(self, g) ==
  LET user_query_lower == lower(self.user_query) IN
    IF any_keyword_in(SUMMARY_KEYWORDS, user_query_lower)
    THEN [type |-> "summary"] @@ summarize_video(self, g)
    ELSE IF any_keyword_in(WEB_SEARCH_KEYWORDS, user_query_lower)
    THEN [type |-> "web_search"] @@ search_web(self, g)
    ELSE [type |-> "fact_check"] @@ fact_check(self, g)

process_query(self, g) ==
  LET user_query_lower == lower(self.user_query) IN
    IF any_keyword_in(SUMMARY_KEYWORDS, user_query_lower)
    THEN [type |-> "summary"] @@ summarize_video(self, g)
    ELSE IF any_keyword_in(WEB_SEARCH_KEYWORDS, user_query_lower)
    THEN [type |-> "web_search"] @@ search_web(self, g)
    ELSE IF any_keyword_in(FACT_CHECK_KEYWORDS, user_query_lower)
    THEN [type |-> "fact_check"] @@ fact_check(self, g)
    ELSE [type |-> "unknown", value |-> UNKNOWN_RESULT, exc |-> "none", calls |-> <<>>]

(* -------------------------------- state -------------------------------- *)

VARIABLES
  pc,             \* where each request's handler stands
  endpoint,       \* the endpoint the request was sent to
  video,          \* the uploaded bytes
  user_query,     \* the user_query form field (/analyze)
  temp_path,      \* temp.name of the request's temporary file
  transcript,     \* the text transcribe_audio returned to the request
  analysis,       \* the dict process_query returned
  response,       \* the HTTP response of the request
  raised,         \* the message of the exception the handler caught
  files,          \* the temporary directory
  running,        \* the request whose handler holds the event loop
  events,         \* per request, the calls its handler has made, in order
  groq_calls,     \* per request, the prompts posted to the completion API
  groq_response,  \* per request, what the completion API answered
  after_error      \* the request arrived after a 500 response had been sent

vars == <<pc, endpoint, video, user_query, temp_path, transcript, analysis,
          response, raised, files, running, events, groq_calls, groq_response,
          after_error>>

NoAnalysis == [type |-> "none", result |-> <<>>]
NoResponse ==
  [status |-> 0, envelope |-> "none", transcript |-> "none",
   analysis |-> NoAnalysis, error |-> "none"]

\* a mutant of the except clause: the error envelope goes out with status 200
except_Exception_status_ok(e) ==
  [status |-> HTTP_OK, envelope |-> "error", transcript |-> "none",
   analysis |-> NoAnalysis, error |-> e]

\* except Exception as e: JSONResponse(status_code=500, content={"error": str(e)})
except_Exception(e) ==
  [status |-> HTTP_ERROR, envelope |-> "error", transcript |-> "none",
   analysis |-> NoAnalysis, error |-> e]

\* return {"transcript": transcript}
transcript_response(t) ==
  [status |-> HTTP_OK, envelope |-> "transcript", transcript |-> t,
   analysis |-> NoAnalysis, error |-> "none"]

\* return {"analysis": result}
analysis_response(result) ==
  [status |-> HTTP_OK, envelope |-> "analysis", transcript |-> "none",
   analysis |-> result, error |-> "none"]

Init ==
  /\ pc = [r \in Reqs |-> "new"]
  /\ endpoint = [r \in Reqs |-> "none"]
  /\ video = [r \in Reqs |-> "none"]
  /\ user_query = [r \in Reqs |-> <<>>]
  /\ temp_path = [r \in Reqs |-> NoPath]
  /\ transcript = [r \in Reqs |-> "none"]
  /\ analysis = [r \in Reqs |-> NoAnalysis]
  /\ response = [r \in Reqs |-> NoResponse]
  /\ raised = [r \in Reqs |-> "none"]
  /\ files = EmptyFiles
  /\ running = NoReq
  /\ events = [r \in Reqs |-> <<>>]
  /\ groq_calls = [r \in Reqs |-> <<>>]
  /\ groq_response = [r \in Reqs |-> NoGroq]
  /\ after_error = [r \in Reqs |-> FALSE]

\* the handler's except clause: the request ends with the error response and
\* the event loop is free again
Raise(r, e) ==
  /\ raised' = [raised EXCEPT ![r] = e]
  /\ response' = [response EXCEPT ![r] = except_Exception(e)]
  /\ pc' = [pc EXCEPT ![r] = "done"]
  /\ running' = NoReq

(* ------------------------------- handlers ------------------------------ *)

\* A request arrives and its handler runs up to `await video.read()`: the
\* temporary file is created, or its creation raises.  Requests are numbered
\* in the order they arrive; V and Q are the uploads and queries clients send.
Enter(r, V, Q) ==
  /\ pc[r] = "new"
  /\ \A s \in Reqs : s < r => pc[s] # "new"
  /\ running = NoReq
  /\ \E e \in Endpoints, v \in V, q \in Q \cup {<<>>} :
       /\ (e = "analyze") = (q # <<>>)
       /\ endpoint' = [endpoint EXCEPT ![r] = e]
       /\ video' = [video EXCEPT ![r] = v]
       /\ user_query' = [user_query EXCEPT ![r] = q]
  /\ after_error' = [after_error EXCEPT ![r] =
                       \E s \in Reqs : pc[s] = "done" /\ response[s].status = HTTP_ERROR]
  /\ \/ /\ temp_path' = [temp_path EXCEPT ![r] = NamedTemporaryFile(files)]
        /\ files' = [files EXCEPT ![temp_path'[r]] = "empty"]
        /\ events' = [events EXCEPT ![r] = Append(@, "mktemp")]
        /\ pc' = [pc EXCEPT ![r] = "await_read"]
        /\ UNCHANGED <<response, raised, running>>
     \/ /\ Raise(r, "OSError: No usable temporary directory")
        /\ UNCHANGED <<temp_path, files, events>>
  /\ UNCHANGED <<transcript, analysis, groq_calls, groq_response>>

\* `await video.read()` completes and temp.write stores the upload, or
\* raises.  From here on the handler runs without awaiting.
ResumeRead(r) ==
  /\ pc[r] = "await_read"
  /\ running = NoReq
  /\ \/ /\ files' = temp_write(files, temp_path[r], video[r])
        /\ events' = [events EXCEPT ![r] = Append(@, "write")]
        /\ pc' = [pc EXCEPT ![r] = "transcribe"]
        /\ running' = r
        /\ UNCHANGED <<response, raised>>
     \/ /\ Raise(r, "OSError: No space left on device")
        /\ UNCHANGED <<files, events>>
  /\ UNCHANGED <<endpoint, video, user_query, temp_path, transcript, analysis,
                 groq_calls, groq_response, after_error>>

\* a mutant of Transcribe: the agent of /analyze is built without
\* transcribing, and the query is routed over an empty transcript
Transcribe_deferred(r) ==
  /\ pc[r] = "transcribe"
  /\ running = r
  /\ IF endpoint[r] = "analyze"
     THEN /\ pc' = [pc EXCEPT ![r] = "route"]
          /\ UNCHANGED <<events, transcript, response, raised, running>>
     ELSE /\ events' = [events EXCEPT ![r] = Append(@, "transcribe")]
          /\ LET t == transcribe_audio(files, temp_path[r]) IN
               IF t.exc # "none"
               THEN /\ Raise(r, t.exc)
                    /\ UNCHANGED transcript
               ELSE /\ transcript' = [transcript EXCEPT ![r] = t.value]
                    /\ pc' = [pc EXCEPT ![r] = "unlink"]
                    /\ UNCHANGED <<response, raised, running>>
  /\ UNCHANGED <<endpoint, video, user_query, temp_path, analysis, files,
                 groq_calls, groq_response, after_error>>

\* transcribe_audio(temp_path) in /transcribe; VideoAgent(video_path,
\* user_query), whose constructor transcribes, in /analyze
Transcribe(r) ==
  /\ pc[r] = "transcribe"
  /\ running = r
  /\ events' = [events EXCEPT ![r] = Append(@, "transcribe")]
  /\ LET t == transcribe_audio(files, temp_path[r]) IN
       IF t.exc # "none"
       THEN /\ Raise(r, t.exc)
            /\ UNCHANGED transcript
       ELSE /\ transcript' = [transcript EXCEPT ![r] = t.value]
            /\ pc' = [pc EXCEPT ![r] = IF endpoint[r] = "analyze" THEN "route" ELSE "unlink"]
            /\ UNCHANGED <<response, raised, running>>
  /\ UNCHANGED <<endpoint, video, user_query, temp_path, analysis, files,
                 groq_calls, groq_response, after_error>>

\* the VideoAgent of request r
agent(r) ==
  [video_path |-> temp_path[r], user_query |-> user_query[r],
   transcript |-> transcript[r]]

\* result = agent.process_query()
ProcessQuery(r) ==
  /\ pc[r] = "route"
  /\ running = r
  /\ \E g \in GroqOutcomes :
       LET res == process_query(agent(r), g) IN
         /\ events' = [events EXCEPT ![r] =
                         Append(@, "classify") \o [i \in 1..Len(res.calls) |-> "groq"]]
         /\ groq_calls' = [groq_calls EXCEPT ![r] = @ \o res.calls]
         /\ groq_response' = [groq_response EXCEPT ![r] =
                                IF res.calls = <<>> THEN @ ELSE g]
         /\ IF res.exc # "none"
            THEN /\ Raise(r, res.exc)
                 /\ UNCHANGED analysis
            ELSE /\ analysis' = [analysis EXCEPT ![r] =
                                   [type |-> res.type, result |-> res.value]]
                 /\ pc' = [pc EXCEPT ![r] = "unlink"]
                 /\ UNCHANGED <<response, raised, running>>
  /\ UNCHANGED <<endpoint, video, user_query, temp_path, transcript, files,
                 after_error>>

\* Path(path).unlink(missing_ok=True) and the return of the handler
UnlinkAndReturn(r) ==
  /\ pc[r] = "unlink"
  /\ running = r
  /\ events' = [events EXCEPT ![r] = Append(@, "unlink")]
  /\ \/ /\ files' = unlink(files, temp_path[r])
        /\ response' = [response EXCEPT ![r] =
                          IF endpoint[r] = "analyze"
                          THEN analysis_response(analysis[r])
                          ELSE transcript_response(transcript[r])]
        /\ pc' = [pc EXCEPT ![r] = "done"]
        /\ running' = NoReq
        /\ UNCHANGED raised
     \/ /\ Raise(r, "PermissionError: unlink")
        /\ UNCHANGED files
  /\ UNCHANGED <<endpoint, video, user_query, temp_path, transcript, analysis,
                 groq_calls, groq_response, after_error>>

\* the service under concurrent requests: NumReqs clients, each sending a
\* decodable or an undecodable upload, to /transcribe or to /analyze with a
\* summary or a web-search query
Next ==
  \E r \in Reqs :
    \/ Enter(r, {"videoA", "corrupt"}, {SummaryExample, WebSearchExample})
    \/ ResumeRead(r)
    \/ Transcribe(r)
    \/ ProcessQuery(r)
    \/ UnlinkAndReturn(r)

Spec == Init /\ [][Next]_vars

\* one request, over every upload and every example and fragment query
NextSingle ==
  \/ Enter(1, Videos, ExampleQueries \cup FragmentQueries)
  \/ ResumeRead(1)
  \/ Transcribe(1)
  \/ ProcessQuery(1)
  \/ UnlinkAndReturn(1)

SpecSingle == Init /\ [][NextSingle]_vars

(* ------------------------ vocabulary of the claims --------------------- *)

InSeq(x, s) == \E i \in 1..Len(s) : s[i] = x
Count(x, s) == Cardinality({i \in 1..Len(s) : s[i] = x})
IndexOf(x, s) == CHOOSE i \in 1..Len(s) : s[i] = x

\* character c of a query is letter k of a keyword, in either letter case
SameLetter(c, k) ==
  \/ c = k
  \/ \E i \in 1..Len(LowerCase) : LowerCase[i] = k /\ UpperCase[i] = c

\* kw occurs in s
Occurs(kw, s) ==
  \E i \in 1..Len(s) :
    /\ i + Len(kw) - 1 <= Len(s)
    /\ \A j \in 1..Len(kw) : s[i + j - 1] = kw[j]

\* kw occurs in q, in any letter case
OccursAnyCase(kw, q) ==
  \E i \in 1..Len(q) :
    /\ i + Len(kw) - 1 <= Len(q)
    /\ \A j \in 1..Len(kw) : SameLetter(q[i + j - 1], kw[j])

Hits(keywords, q) == \E i \in 1..Len(keywords) : OccursAnyCase(keywords[i], q)

HasUpperCase(q) == \E i \in 1..Len(q), j \in 1..Len(UpperCase) : q[i] = UpperCase[j]

\* the first category, in the order Summary > WebSearch > FactCheck, one of
\* whose keywords occurs in the query
FirstCategory(q) ==
  IF Hits(SUMMARY_KEYWORDS, q) THEN "summary"
  ELSE IF Hits(WEB_SEARCH_KEYWORDS, q) THEN "web_search"
  ELSE IF Hits(FACT_CHECK_KEYWORDS, q) THEN "fact_check"
  ELSE "unknown"

\* the three digits of an HTTP status code
StatusText(n) ==
  <<Digits[((n \div 100) % 10) + 1], Digits[((n \div 10) % 10) + 1], Digits[(n % 10) + 1]>>

Routed(r) == analysis[r].type # "none"
Done(r) == pc[r] = "done"
UnlinkFailed(r) == raised[r] = "PermissionError: unlink"
TranscriptionFailed(r) ==
  raised[r] \in {"RuntimeError: Failed to load audio", "RuntimeError: No such file"}
CompletionRaised(r) == raised[r] \in {"ConnectionError", "KeyError: 'choices'"}
NonSuccess(r) == groq_response[r].status \notin {0, HTTP_OK}
ErrorEnvelope(r) == response[r].envelope = "error"

(* --------------------------------- C1 ---------------------------------- *)

\* C1: every routing decision selects exactly one intent, the first category
\* in the order Summary > WebSearch > FactCheck one of whose keywords occurs
\* in the query in any letter case, or Unknown when none does; the only
\* routing decision that returns no intent is a Summary one whose completion
\* call raised.
C1_FirstMatchingCategory ==
  \A r \in Reqs :
    /\ Routed(r) =>
         /\ analysis[r].type \in {"summary", "web_search", "fact_check", "unknown"}
         /\ analysis[r].type = FirstCategory(user_query[r])
    /\ (InSeq("classify", events[r]) /\ ~Routed(r)) =>
         /\ FirstCategory(user_query[r]) = "summary"
         /\ CompletionRaised(r)

\* a query with a Summary keyword in upper case after a WebSearch keyword
\* has been routed to Summary
C1_Witness ==
  \E r \in Reqs :
    /\ Hits(SUMMARY_KEYWORDS, user_query[r])
    /\ Hits(WEB_SEARCH_KEYWORDS, user_query[r])
    /\ ~Occurs(SUMMARY_KEYWORDS[3], user_query[r])
    /\ analysis[r].type = "summary"

(* --------------------------------- C2 ---------------------------------- *)

\* C2: the result of a query routed to WebSearch or FactCheck is the
\* DuckDuckGo prefix followed by the query exactly as the caller sent it,
\* whatever the transcript.
C2_SearchUrlOfRawQuery ==
  \A r \in Reqs :
    analysis[r].type \in {"web_search", "fact_check"} =>
      analysis[r].result = URL_PREFIX \o user_query[r]

\* a web-search query typed with upper-case letters has got its link, over
\* the transcript of video B
C2_Witness ==
  \E r \in Reqs :
    /\ analysis[r].type = "web_search"
    /\ HasUpperCase(user_query[r])
    /\ transcript[r] = "speech of B"
    /\ Done(r)
    /\ response[r].analysis.result = URL_PREFIX \o user_query[r]

(* --------------------------------- C3 ---------------------------------- *)

\* C3: a query none of whose characters spell a keyword is routed to Unknown
\* with the fixed apology, Unknown is returned for no other query, and the
\* request then answers with the analysis envelope unless deleting the
\* temporary file raised.
C3_UnknownIsAResult ==
  \A r \in Reqs :
    /\ (InSeq("classify", events[r]) /\ FirstCategory(user_query[r]) = "unknown") =>
         /\ analysis[r] = [type |-> "unknown", result |-> UNKNOWN_RESULT]
         /\ raised[r] \in {"none", "PermissionError: unlink"}
    /\ analysis[r].type = "unknown" =>
         /\ ~Hits(SUMMARY_KEYWORDS, user_query[r])
         /\ ~Hits(WEB_SEARCH_KEYWORDS, user_query[r])
         /\ ~Hits(FACT_CHECK_KEYWORDS, user_query[r])
    /\ (Done(r) /\ analysis[r].type = "unknown" /\ ~UnlinkFailed(r)) =>
         /\ response[r].status = HTTP_OK
         /\ response[r].envelope = "analysis"
         /\ response[r].analysis = [type |-> "unknown", result |-> UNKNOWN_RESULT]

\* "what is the weather" has been answered with the Unknown analysis
C3_Witness ==
  \E r \in Reqs :
    /\ user_query[r] = <<"w","h","a","t"," ","i","s"," ","t","h","e"," ","w","e","a","t","h","e","r">>
    /\ Done(r)
    /\ response[r].envelope = "analysis"
    /\ response[r].analysis.type = "unknown"

(* --------------------------------- C4 ---------------------------------- *)

\* C4: when the completion API answers with a status other than 200, the
\* routing result is a Summary whose text contains the status code and the
\* response body, one call was made and the Summary branch raised nothing.
C4_NonSuccessEmbedded ==
  \A r \in Reqs :
    NonSuccess(r) =>
      /\ analysis[r].type = "summary"
      /\ Occurs(StatusText(groq_response[r].status), analysis[r].result)
      /\ Occurs(groq_response[r].body, analysis[r].result)
      /\ Len(groq_calls[r]) = 1
      /\ raised[r] \in {"none", "PermissionError: unlink"}

\* a 429 answer has been returned to the client inside a Summary analysis
C4_Witness ==
  \E r \in Reqs :
    /\ groq_response[r].status = 429
    /\ Done(r)
    /\ response[r].envelope = "analysis"
    /\ response[r].analysis.type = "summary"
    /\ Occurs(<<"4","2","9">>, response[r].analysis.result)

(* --------------------------------- C5 ---------------------------------- *)

NoRetry(r) == Len(groq_calls[r]) <= 1 /\ Count("transcribe", events[r]) <= 1

\* C5 as stated: every collaborator failure of an /analyze request, a
\* non-success answer of the completion API included, ends the request with
\* the error envelope; nothing is retried and the event loop is released.
C5_Original ==
  \A r \in Reqs :
    (Done(r) /\ endpoint[r] = "analyze") =>
      /\ (TranscriptionFailed(r) \/ CompletionRaised(r) \/ NonSuccess(r)) =>
           /\ ErrorEnvelope(r)
           /\ response[r].status = HTTP_ERROR
      /\ NoRetry(r)
      /\ running # r

\* C5 as amended: an exception raised by a collaborator (transcription, the
\* completion call, a 200 answer without the expected fields) ends the
\* /analyze request with status 500 and {error: message}; a non-success answer
\* of the completion API is no failure of the request and is returned in the
\* analysis envelope as a Summary; nothing is retried, the event loop is
\* released, and a request that arrives after an error response is served.
C5_CollaboratorFailures ==
  \A r \in Reqs :
    /\ (Done(r) /\ endpoint[r] = "analyze") =>
         /\ (TranscriptionFailed(r) \/ CompletionRaised(r)) =>
              /\ ErrorEnvelope(r)
              /\ response[r].status = HTTP_ERROR
              /\ response[r].error = raised[r]
         /\ NonSuccess(r) =>
              /\ raised[r] \in {"none", "PermissionError: unlink"}
              /\ raised[r] = "none" =>
                   /\ response[r].status = HTTP_OK
                   /\ response[r].envelope = "analysis"
                   /\ response[r].analysis.type = "summary"
                   /\ Occurs(groq_response[r].body, response[r].analysis.result)
         /\ NoRetry(r)
         /\ running # r
    /\ (Done(r) /\ after_error[r] /\ raised[r] = "none") =>
         /\ response[r].status = HTTP_OK
         /\ response[r].envelope \in {"transcript", "analysis"}

\* a transcription failure has been answered with the error envelope, and a
\* request that arrived afterwards has got a 429 of the completion API back
\* inside a Summary analysis
C5_Witness ==
  \E r, s \in Reqs :
    /\ Done(s) /\ endpoint[s] = "analyze" /\ TranscriptionFailed(s) /\ ErrorEnvelope(s)
    /\ Done(r) /\ after_error[r] /\ groq_response[r].status = 429
    /\ response[r].status = HTTP_OK /\ response[r].envelope = "analysis"

(* --------------------------------- C6 ---------------------------------- *)

\* C6: an exception raised at any step of either handler ends the request
\* with status 500 and the body {error: message of the exception}; a request
\* that has ended has a response and no longer holds the event loop.
C6_ExceptionsBecome500 ==
  \A r \in Reqs :
    /\ raised[r] # "none" =>
         /\ Done(r)
         /\ response[r].status = HTTP_ERROR
         /\ ErrorEnvelope(r)
         /\ response[r].error = raised[r]
    /\ Done(r) =>
         /\ response[r] # NoResponse
         /\ response[r].status \in {HTTP_OK, HTTP_ERROR}
         /\ (response[r].status = HTTP_ERROR) = (raised[r] # "none")
         /\ running # r
    /\ ~Done(r) => response[r] = NoResponse

\* a /transcribe request whose transcription raised and an /analyze request
\* whose completion call raised have both been answered with status 500
C6_Witness ==
  \E r, s \in Reqs :
    /\ endpoint[r] = "transcribe" /\ TranscriptionFailed(r)
    /\ response[r].status = HTTP_ERROR /\ response[r].error = raised[r]
    /\ endpoint[s] = "analyze" /\ raised[s] = "ConnectionError"
    /\ response[s].status = HTTP_ERROR /\ response[s].error = "ConnectionError"

(* --------------------------------- C7 ---------------------------------- *)

\* C7: the step that routes a query posts to the completion API exactly once
\* when the query is a Summary one and not at all otherwise, in which case it
\* changes neither the files nor anything recorded of the completion API, the
\* transcript or the inputs; no other step posts to the completion API.
C7_OnlySummaryCallsOut ==
  [][\A r \in Reqs :
       LET routes == ~InSeq("classify", events[r]) /\ InSeq("classify", events'[r])
           posted == Len(groq_calls'[r]) - Len(groq_calls[r])
       IN  /\ routes =>
                /\ posted = (IF FirstCategory(user_query[r]) = "summary" THEN 1 ELSE 0)
                /\ FirstCategory(user_query[r]) # "summary" =>
                     /\ files' = files
                     /\ groq_response' = groq_response
                     /\ transcript' = transcript
                     /\ user_query' = user_query
                     /\ video' = video
                     /\ temp_path' = temp_path
                     /\ raised' = raised
           /\ ~routes => posted = 0]_vars

\* a fact-check query has been answered without any post to the completion
\* API
C7_Witness ==
  \E r \in Reqs :
    /\ Done(r)
    /\ response[r].envelope = "analysis"
    /\ response[r].analysis.type = "fact_check"
    /\ groq_calls[r] = <<>>
    /\ groq_response[r] = NoGroq

(* --------------------------------- C8 ---------------------------------- *)

\* what Whisper makes of an upload
SpeechOf(v) == IF v = "videoA" THEN "speech of A" ELSE "speech of B"

\* the analysis of query q when the completion API answers g
AnalysisAlone(q, g) ==
  IF FirstCategory(q) = "summary"
  THEN [type |-> "summary",
        result |-> IF g.status = HTTP_OK THEN g.body
                   ELSE GROQ_ERROR_PREFIX \o StatusText(g.status) \o GROQ_ERROR_SEP \o g.body]
  ELSE IF FirstCategory(q) = "unknown"
  THEN [type |-> "unknown", result |-> UNKNOWN_RESULT]
  ELSE [type |-> FirstCategory(q), result |-> URL_PREFIX \o q]

\* The response of request r handled alone: a function of its own upload and
\* query, of what the completion API answered to it, and of the failure of
\* its own file operations, if one failed.
ResponseAlone(r) ==
  LET g == groq_response[r]
      error(e) == [status |-> HTTP_ERROR, envelope |-> "error", transcript |-> "none",
                   analysis |-> NoAnalysis, error |-> e]
  IN
  IF raised[r] \in {"OSError: No usable temporary directory",
                    "OSError: No space left on device"}
  THEN error(raised[r])
  ELSE IF video[r] = "corrupt" THEN error("RuntimeError: Failed to load audio")
  ELSE IF endpoint[r] = "analyze" /\ FirstCategory(user_query[r]) = "summary"
          /\ g.exc # "none"
  THEN error(g.exc)
  ELSE IF endpoint[r] = "analyze" /\ FirstCategory(user_query[r]) = "summary"
          /\ g.status = HTTP_OK /\ ~g.json_ok
  THEN error("KeyError: 'choices'")
  ELSE IF UnlinkFailed(r) THEN error(raised[r])
  ELSE IF endpoint[r] = "transcribe"
  THEN [status |-> HTTP_OK, envelope |-> "transcript", transcript |-> SpeechOf(video[r]),
        analysis |-> NoAnalysis, error |-> "none"]
  ELSE [status |-> HTTP_OK, envelope |-> "analysis", transcript |-> "none",
        analysis |-> AnalysisAlone(user_query[r], g), error |-> "none"]

HasTempFile(r) == temp_path[r] # NoPath /\ ~Done(r)

\* C8: requests that are in progress together have different temporary
\* files, the file of a request holds its own upload from the write on, its
\* transcript is that of its own upload, and the response of every request is
\* the one it would get alone.
C8_RequestsAreIsolated ==
  \A r \in Reqs :
    /\ \A s \in Reqs : (s # r /\ HasTempFile(r) /\ HasTempFile(s)) => temp_path[r] # temp_path[s]
    /\ (HasTempFile(r) /\ InSeq("write", events[r]) /\ ~InSeq("unlink", events[r])) =>
         files[temp_path[r]] = video[r]
    /\ transcript[r] # "none" => transcript[r] = SpeechOf(video[r])
    /\ Done(r) => response[r] = ResponseAlone(r)

\* request 2 has arrived, run and been answered with its own transcript or
\* analysis while request 1 was suspended in `await video.read()`, and its
\* file is gone while the file of request 1 is there
C8_Witness ==
  /\ pc[1] = "await_read"
  /\ Done(2)
  /\ response[2].status = HTTP_OK
  /\ files[temp_path[1]] = "empty"
  /\ files[temp_path[2]] = "absent"

(* --------------------------------- C9 ---------------------------------- *)

\* C9: an /analyze request never transcribes twice; once its upload is
\* stored and the constructor of the agent has run it has transcribed exactly
\* once; a query is classified only after that transcription, whatever its
\* intent; and when transcription fails the query is neither classified nor
\* sent to the completion API.
C9_TranscribeOnceBeforeRouting ==
  \A r \in Reqs :
    endpoint[r] = "analyze" =>
      /\ Count("transcribe", events[r]) <= 1
      /\ (InSeq("write", events[r]) /\ pc[r] # "transcribe") =>
           Count("transcribe", events[r]) = 1
      /\ InSeq("classify", events[r]) =>
           /\ Count("transcribe", events[r]) = 1
           /\ IndexOf("transcribe", events[r]) < IndexOf("classify", events[r])
           /\ transcript[r] # "none"
      /\ InSeq("groq", events[r]) =>
           IndexOf("classify", events[r]) < IndexOf("groq", events[r])
      /\ TranscriptionFailed(r) =>
           /\ ~InSeq("classify", events[r])
           /\ groq_calls[r] = <<>>
           /\ ~Routed(r)

\* a query of intent Unknown has been answered after one transcription that
\* preceded its classification
C9_Witness ==
  \E r \in Reqs :
    /\ endpoint[r] = "analyze"
    /\ Done(r)
    /\ response[r].analysis.type = "unknown"
    /\ events[r] = <<"mktemp", "write", "transcribe", "classify", "unlink">>

(* --------------------------------- C10 --------------------------------- *)

\* C10: once a request has finished, with either response, the temporary
\* file it created is gone (or its name belongs to a later request by now),
\* and the file is there until transcription and routing are over.
C10_TempFileGone ==
  \A r \in Reqs :
    /\ (Done(r) /\ temp_path[r] # NoPath) =>
         \/ files[temp_path[r]] = "absent"
         \/ \E s \in Reqs : s # r /\ HasTempFile(s) /\ temp_path[s] = temp_path[r]
    /\ pc[r] \in {"await_read", "transcribe", "route", "unlink"} =>
         files[temp_path[r]] # "absent"

====
